---- MODULE Spec2Model ----
(***************************************************************************)
(* Word-by-word reveal of the Preamble (src/src/PreambleAnalyzer.jsx).     *)
(*                                                                         *)
(* The source file holds two versions of the component:                    *)
(*   variant 1  lines 1-476    inline reset, "Tranquility" pause protocol  *)
(*   variant 2  lines 477-1189 resetAll(), no pause protocol, the loop     *)
(*                             stops and pauses the video past the end     *)
(* Both are modelled; `variant` selects one at construction and never      *)
(* changes.                                                                *)
(*                                                                         *)
(* React state and refs are the variables of the same name.  A setState    *)
(* call is applied in the step of the handler that makes it; the two       *)
(* useEffect bodies are actions of their own (SyncEffect, ManualEffect)    *)
(* that run when one of their dependencies differs from the value it had   *)
(* at their previous run.  React flushes the effects of a commit before    *)
(* it handles the next callback, so every other action waits for them.     *)
(* The start handlers are commands that may be issued in any state in     *)
(* which the component renders a button for them; the `disabled` attribute *)
(* of the buttons is presentation and is not modelled, the handlers carry  *)
(* their own readiness checks.                                             *)
(*                                                                         *)
(* Strings are sequences of one-character strings.  Time is in tenths of   *)
(* a second, so that the 0.3 s seek of the pause protocol is an integer.   *)
(* null is modelled as -1 where the source holds a number or null.         *)
(***************************************************************************)
EXTENDS Integers, Sequences, FiniteSets, TLC

(* ----------------------------- bounds ---------------------------------- *)

\* Distance, in percent of the preamble segment, between two transport
\* times that the model lets the player report.
GridStep == 50

\* State-change notifications of the player that are not yet delivered.
MaxEvents == 1

\* Pending one-shot timers of the pause protocol (each kind).
MaxTimers == 1

(* ----------------------------- the text -------------------------------- *)

Preamble == <<
    "W","e"," ","t","h","e"," ","P","e","o","p","l","e",","," ","i","n"," ",
    "O","r","d","e","r"," ","t","o"," ","f","o","r","m"," ","a"," ","m","o",
    "r","e"," ","p","e","r","f","e","c","t"," ","U","n","i","o","n",","," ",
    "e","s","t","a","b","l","i","s","h"," ","J","u","s","t","i","c","e",",",
    " ","i","n","s","u","r","e"," ","d","o","m","e","s","t","i","c"," ","T",
    "r","a","n","q","u","i","l","i","t","y",","," ","p","r","o","v","i","d",
    "e"," ","f","o","r"," ","t","h","e"," ","c","o","m","m","o","n"," ","d",
    "e","f","e","n","c","e",","," ","p","r","o","m","o","t","e"," ","t","h",
    "e"," ","g","e","n","e","r","a","l"," ","W","e","l","f","a","r","e",",",
    " ","a","n","d"," ","s","e","c","u","r","e"," ","t","h","e"," ","B","l",
    "e","s","s","i","n","g","s"," ","o","f"," ","L","i","b","e","r","t","y",
    " ","t","o"," ","o","u","r","s","e","l","v","e","s"," ","a","n","d"," ",
    "o","u","r"," ","P","o","s","t","e","r","i","t","y",","," ","d","o"," ",
    "o","r","d","a","i","n"," ","a","n","d"," ","e","s","t","a","b","l","i",
    "s","h"," ","t","h","i","s"," ","C","o","n","s","t","i","t","u","t","i",
    "o","n"," ","f","o","r"," ","t","h","e"," ","U","n","i","t","e","d"," ",
    "S","t","a","t","e","s"," ","o","f"," ","A","m","e","r","i","c","a","."
>>

PREAMBLE == <<
    "W","e"," ","t","h","e"," ","P","e","o","p","l","e",","," ","o","f"," ",
    "t","h","e"," ","U","n","i","t","e","d"," ","S","t","a","t","e","s",",",
    " ","i","n"," ","O","r","d","e","r"," ","t","o"," ","f","o","r","m"," ",
    "a"," ","m","o","r","e"," ","p","e","r","f","e","c","t"," ","U","n","i",
    "o","n",","," ","e","s","t","a","b","l","i","s","h"," ","J","u","s","t",
    "i","c","e",","," ","i","n","s","u","r","e"," ","d","o","m","e","s","t",
    "i","c"," ","T","r","a","n","q","u","i","l","i","t","y",","," ","p","r",
    "o","v","i","d","e"," ","f","o","r"," ","t","h","e"," ","c","o","m","m",
    "o","n"," ","d","e","f","e","n","c","e",","," ","p","r","o","m","o","t",
    "e"," ","t","h","e"," ","g","e","n","e","r","a","l"," ","W","e","l","f",
    "a","r","e",","," ","a","n","d"," ","s","e","c","u","r","e"," ","t","h",
    "e"," ","B","l","e","s","s","i","n","g","s"," ","o","f"," ","L","i","b",
    "e","r","t","y"," ","t","o"," ","o","u","r","s","e","l","v","e","s"," ",
    "a","n","d"," ","o","u","r"," ","P","o","s","t","e","r","i","t","y",",",
    " ","d","o"," ","o","r","d","a","i","n"," ","a","n","d"," ","e","s","t",
    "a","b","l","i","s","h"," ","t","h","i","s"," ","C","o","n","s","t","i",
    "t","u","t","i","o","n"," ","f","o","r"," ","t","h","e"," ","U","n","i",
    "t","e","d"," ","S","t","a","t","e","s"," ","o","f"," ","A","m","e","r",
    "i","c","a","."
>>

UPPER == <<"A","B","C","D","E","F","G","H","I","J","K","L","M",
           "N","O","P","Q","R","S","T","U","V","W","X","Y","Z">>

LOWER == <<"a","b","c","d","e","f","g","h","i","j","k","l","m",
           "n","o","p","q","r","s","t","u","v","w","x","y","z">>

\* String.prototype.split(' '): the pieces between single spaces, in order.
Split(s) ==
    LET spaces == {i \in 1..Len(s) : s[i] = " "}
        starts == {1} \cup {i + 1 : i \in spaces}
        StartOf(k) == CHOOSE a \in starts : Cardinality({i \in spaces : i < a}) = k - 1
        EndOf(a) == IF \E i \in spaces : i >= a
                    THEN CHOOSE i \in spaces : i >= a /\ \A j \in spaces : j >= a => i <= j
                    ELSE Len(s) + 1
    IN  [k \in 1..(Cardinality(spaces) + 1) |-> SubSeq(s, StartOf(k), EndOf(StartOf(k)) - 1)]

words1 == Split(Preamble)

words2 == Split(PREAMBLE)

\* String.prototype.toLowerCase on the letters of the passage.
toLowerChar(c) ==
    IF \E k \in 1..Len(UPPER) : UPPER[k] = c
    THEN LOWER[CHOOSE k \in 1..Len(UPPER) : UPPER[k] = c]
    ELSE c

toLowerCase(w) == [k \in 1..Len(w) |-> toLowerChar(w[k])]

IsPunct(c) == c \in {".", ","}

\* replace(/[.,]/g, ''): every comma and period is removed.
StripPunct(w) == SelectSeq(w, LAMBDA c : ~IsPunct(c))

\* Faulty variant: the punctuation is removed and the case is kept.
normalizeWord_KeepsCase(w) == StripPunct(w)

normalizeWord(w) == StripPunct(toLowerCase(w))

startsWith(w, c) == Len(w) > 0 /\ w[1] = c

endsWith(w, c) == Len(w) > 0 /\ w[Len(w)] = c

\* Variant 1, video count logic: one trailing comma or period is sliced off.
SliceTrailing(w) ==
    IF endsWith(w, ",") \/ endsWith(w, ".") THEN SubSeq(w, 1, Len(w) - 1) ELSE w

\* Faulty variant: the both bit is set when either test succeeds.
computeCounts_BothIsEither(word) ==
    LET cleanWord == normalizeWord(word)
        startsT == startsWith(cleanWord, "t")
        endsE == endsWith(cleanWord, "e")
    IN  [startsT |-> startsT, endsE |-> endsE, both |-> startsT \/ endsE]

computeCounts(word) ==
    LET cleanWord == normalizeWord(word)
        startsT == startsWith(cleanWord, "t")
        endsE == endsWith(cleanWord, "e")
    IN  [startsT |-> startsT, endsE |-> endsE, both |-> startsT /\ endsE]

TRANQUILITY == <<"t","r","a","n","q","u","i","l","i","t","y">>

(* The per-variant token tables, 0-based as in the source. *)

Words(v) == IF v = 1 THEN words1 ELSE words2

NumWords(v) == Len(Words(v))

WordAt(v, i) == Words(v)[i + 1]

\* words.findIndex(w => normalized(w) === 'tranquility'); -1 when absent.
tranquilityIndex1 ==
    IF \E i \in 0..(Len(words1) - 1) : normalizeWord(words1[i + 1]) = TRANQUILITY
    THEN CHOOSE i \in 0..(Len(words1) - 1) :
            /\ normalizeWord(words1[i + 1]) = TRANQUILITY
            /\ \A j \in 0..(i - 1) : normalizeWord(words1[j + 1]) # TRANQUILITY
    ELSE -1

\* The word as the video loop classifies and keys it.
VideoWord1 == [i \in 0..(Len(words1) - 1) |-> SliceTrailing(toLowerCase(words1[i + 1]))]

VideoWord2 == [i \in 0..(Len(words2) - 1) |-> normalizeWord(words2[i + 1])]

VideoWord(v, i) == IF v = 1 THEN VideoWord1[i] ELSE VideoWord2[i]

\* The word as the manual timer classifies it.
ManualWord1 == [i \in 0..(Len(words1) - 1) |-> normalizeWord(words1[i + 1])]

ManualWord2 == [i \in 0..(Len(words2) - 1) |-> normalizeWord(words2[i + 1])]

ManualWord(v, i) == IF v = 1 THEN ManualWord1[i] ELSE ManualWord2[i]

Bits1 == [i \in 0..(Len(words1) - 1) |->
            [startsT |-> startsWith(VideoWord1[i], "t"),
             endsE |-> endsWith(VideoWord1[i], "e"),
             both |-> startsWith(VideoWord1[i], "t") /\ endsWith(VideoWord1[i], "e")]]

Bits2 == [i \in 0..(Len(words2) - 1) |-> computeCounts(VideoWord2[i])]

\* Classification used by the video loop.
VideoBits(v, i) == IF v = 1 THEN Bits1[i] ELSE Bits2[i]

MBits1 == [i \in 0..(Len(words1) - 1) |->
            [startsT |-> startsWith(ManualWord1[i], "t"),
             endsE |-> endsWith(ManualWord1[i], "e"),
             both |-> startsWith(ManualWord1[i], "t") /\ endsWith(ManualWord1[i], "e")]]

MBits2 == [i \in 0..(Len(words2) - 1) |-> computeCounts(ManualWord2[i])]

\* Faulty variant: the manual timer classifies the word without lower-casing it.
ManualBits_RawCase(v, i) ==
    LET w == StripPunct(WordAt(v, i))
    IN  [startsT |-> startsWith(w, "t"), endsE |-> endsWith(w, "e"),
         both |-> startsWith(w, "t") /\ endsWith(w, "e")]

\* Faulty variant: the manual timer increments every counter for every word.
ManualBits_EveryWord(v, i) == [startsT |-> TRUE, endsE |-> TRUE, both |-> TRUE]

\* Classification used by the manual timer.
ManualBits(v, i) == IF v = 1 THEN MBits1[i] ELSE MBits2[i]

(* --------------------------- time and mapping -------------------------- *)

START_OFFSET_SECONDS == 1300

PREAMBLE_END_SECONDS == 1700

startOffset == 600

preambleEndTime == 900

SEEK_FORWARD == 3

SegStart(v) == IF v = 1 THEN startOffset ELSE START_OFFSET_SECONDS

SegEnd(v) == IF v = 1 THEN preambleEndTime ELSE PREAMBLE_END_SECONDS

\* Math.pow(n / 100, 1.15) in units of 10^-7, for n = 0..100 (entry n + 1).
\* The transport times of the model are whole percents of the segment.
EASING_POW == <<
    0, 50118, 111220, 177292, 246813, 319018, 393435, 469745, 547713, 627160,
    707945, 789953, 873088, 957270, 1042430, 1128508, 1215452, 1303215,
    1391756, 1481039, 1571030, 1661698, 1753016, 1844960, 1937505, 2030630,
    2124317, 2218545, 2313298, 2408561, 2504317, 2600554, 2697257, 2794415,
    2892016, 2990048, 3088501, 3187366, 3286632, 3386291, 3486333, 3586752,
    3687539, 3788686, 3890187, 3992035, 4094223, 4196744, 4299593, 4402764,
    4506252, 4610050, 4714154, 4818559, 4923260, 5028252, 5133531, 5239092,
    5344932, 5451045, 5557429, 5664079, 5770991, 5878163, 5985590, 6093269,
    6201196, 6309370, 6417786, 6526441, 6635333, 6744458, 6853814, 6963399,
    7073208, 7183241, 7293494, 7403964, 7514650, 7625549, 7736659, 7847977,
    7959502, 8071231, 8183162, 8295293, 8407622, 8520148, 8632867, 8745779,
    8858881, 8972172, 9085649, 9199312, 9313159, 9427187, 9541395, 9655782,
    9770346, 9885086, 10000000
>>

\* progress in percent: Math.min(effectiveTime / preambleDuration, 1.0).
ProgressPct(v, t) ==
    LET pct == ((t - SegStart(v)) * 100) \div (SegEnd(v) - SegStart(v))
    IN  IF pct > 100 THEN 100 ELSE pct

\* Faulty variant: the easing curve comes down again after the midpoint.
EasedProgress_Mirrored(pct) ==
    IF pct < 50 THEN EASING_POW[pct + 1] ELSE EASING_POW[100 - pct + 1]

\* progress < 1 ? Math.pow(progress, 1.15) : progress
EasedProgress(pct) == IF pct < 100 THEN EASING_POW[pct + 1] ELSE 10000000

\* Faulty variant: the mapping runs through the passage backwards.
IndexAt_Descending(v, t) ==
    NumWords(v) - 1 - ((EasedProgress(ProgressPct(v, t)) * NumWords(v)) \div 10000000)

\* Math.floor(easedProgress * words.length)
IndexAt(v, t) == (EasedProgress(ProgressPct(v, t)) * NumWords(v)) \div 10000000

TimeOfPct(v, n) == SegStart(v) + (n * (SegEnd(v) - SegStart(v))) \div 100

\* Percents of the segment whose index is the keyword's.
KeywordPcts(v) == {n \in 0..99 : normalizeWord(WordAt(v, IndexAt(v, TimeOfPct(v, n)))) = TRANQUILITY}

\* The first percent at which the loop reads the keyword's index.
KeywordPct(v) == CHOOSE n \in KeywordPcts(v) : \A m \in KeywordPcts(v) : n <= m

\* The sampled clock: before the segment, every GridStep percent of it, the
\* keyword's window, the segment end and past it.
SamplePcts(v) ==
    {0 - GridStep, 100, 100 + GridStep}
        \cup {n \in 0..100 : n % GridStep = 0}
        \cup {KeywordPct(v)}

\* The times the player reports when it plays or is sought by the user.
Times1 == {TimeOfPct(1, n) : n \in SamplePcts(1)}

Times2 == {TimeOfPct(2, n) : n \in SamplePcts(2)}

Times(v) == IF v = 1 THEN Times1 ELSE Times2

MaxTime(v) == TimeOfPct(v, 100 + GridStep)

NextTime(v, t) ==
    LET later == {u \in Times(v) : u > t}
    IN  CHOOSE u \in later : \A w \in later : u <= w

(* ------------------------------- state --------------------------------- *)

VARIABLES
    variant,                    \* which version of the component runs
    playerRef,                  \* "null" or "player"
    ready, duration,            \* useState: player readiness, getDuration()
    currentIndex,               \* useState: index applied by the video loop
    startsWithT, endsWithE, doesBoth,   \* useState: the three counters
    loopRunning, isManualMode, manualIndex,
    isPausedAtTranquility,      \* useState (variant 1)
    countedWordsRef,            \* useRef: Set of `${index}-${word}` keys
    pauseStartTimeRef,          \* useRef: time of the keyword pause, or null
    hasPausedAtTranquilityRef,  \* useRef: the one-shot latch
    lastIndexRef,               \* useRef: last index applied by the loop
    playerTime, playerState,    \* the player: clock and playback state
    events,                     \* onStateChange notifications in flight
    rafPending,                 \* a requestAnimationFrame(update) is pending
    frames,                     \* how many requested frames are pending
    rafPaused,                  \* isPausedAtTranquility as `update` closed over it
    manualTimer,                \* the 400 ms manual timer is pending
    timeouts,                   \* how many 400 ms manual timers are pending
    resumeTimers,               \* pending 300 ms keyword timers
    playTimers,                 \* pending 50 ms resume timers
    syncDeps, manualDeps,       \* dependency values at the last effect run
    lastOp,                     \* the branch the last step took and its transport commands
    triggers,                   \* keyword pauses triggered since the last start
    manualTicks,                \* manual timer ticks since the last start
    rewound                     \* the clock of a running loop has moved backwards
                                \* since the last start

reactState == <<ready, duration, currentIndex, startsWithT, endsWithE, doesBoth,
                loopRunning, isManualMode, manualIndex, isPausedAtTranquility>>

refs == <<playerRef, countedWordsRef, pauseStartTimeRef, hasPausedAtTranquilityRef,
          lastIndexRef>>

player == <<playerTime, playerState, events>>

sched == <<rafPending, frames, rafPaused, manualTimer, timeouts, resumeTimers, playTimers,
           syncDeps, manualDeps>>

history == <<triggers, manualTicks, rewound>>

vars == <<variant, reactState, refs, player, sched, lastOp, history>>

counters == <<startsWithT, endsWithE, doesBoth>>

\* Faulty variant: the renderer is always given the video index.
activeIndex_VideoOnly == currentIndex

\* const activeIndex = isManualMode ? manualIndex : currentIndex;
activeIndex == IF isManualMode THEN manualIndex ELSE currentIndex

\* The record of the last operation: its name, the player commands it
\* called, and whether one of them threw.
Op(name, cmds) == [op |-> name, cmds |-> cmds, threw |-> FALSE]

OpThrew(name, cmds) == [op |-> name, cmds |-> cmds, threw |-> TRUE]

\* Faulty variant: the effect cleanup cancels nothing.
Cancelled_Nothing(pending) == pending

\* cancelAnimationFrame(animationFrameId) / clearTimeout(timer) of an effect
\* cleanup: the one callback the effect run kept the id of, if still pending.
Cancelled(pending) == IF pending > 0 THEN pending - 1 ELSE 0

SyncDepsNow == <<loopRunning, duration, isManualMode, ready>>

ManualDepsNow == <<isManualMode, manualIndex, loopRunning>>

SyncPending == syncDeps # SyncDepsNow

ManualPending == manualDeps # ManualDepsNow

EffectsPending == SyncPending \/ ManualPending

Init ==
    /\ variant \in {1, 2}
    /\ playerRef = "null"
    /\ ready = FALSE
    /\ duration = -1
    /\ currentIndex = -1
    /\ startsWithT = 0 /\ endsWithE = 0 /\ doesBoth = 0
    /\ loopRunning = FALSE
    /\ isManualMode = FALSE
    /\ manualIndex = -1
    /\ isPausedAtTranquility = FALSE
    /\ countedWordsRef = {}
    /\ pauseStartTimeRef = -1
    /\ hasPausedAtTranquilityRef = FALSE
    /\ lastIndexRef = -1
    /\ playerTime = 0
    /\ playerState = "unstarted"
    /\ events = <<>>
    /\ rafPending = FALSE
    /\ frames = 0
    /\ rafPaused = FALSE
    /\ manualTimer = FALSE
    /\ timeouts = 0
    /\ resumeTimers = 0
    /\ playTimers = 0
    /\ syncDeps = <<FALSE, -1, FALSE, FALSE>>
    /\ manualDeps = <<FALSE, -1, FALSE>>
    /\ lastOp = Op("mount", <<>>)
    /\ triggers = 0
    /\ manualTicks = 0
    /\ rewound = FALSE

(* ------------------------- the player (external) ----------------------- *)

\* player.pauseVideo(): a playing video pauses and notifies PAUSED.
PauseState(ps) == IF ps = "playing" THEN "paused" ELSE ps

\* A notification carries the new state; `by` records who caused it and is
\* not visible to the handler.
Event(data, by) == [data |-> data, by |-> by]

PauseEvents(ps, ev) ==
    IF ps = "playing" THEN Append(ev, Event("PAUSED", "driver")) ELSE ev

\* typeof playerRef.current.pauseVideo === 'function'
HasMethods == playerRef = "player" /\ ready

(* --------------------------- player creation --------------------------- *)

onYouTubeIframeAPIReady ==
    /\ playerRef = "null"
    /\ playerRef' = "player"
    /\ lastOp' = Op("apiReady", <<>>)
    /\ UNCHANGED <<variant, reactState, countedWordsRef, pauseStartTimeRef,
                   hasPausedAtTranquilityRef, lastIndexRef, player, sched,
                   history>>

onReady ==
    /\ playerRef = "player"
    /\ ~ready
    /\ ~EffectsPending
    /\ ready' = TRUE
    /\ \E d \in {0, MaxTime(variant) + 100} : duration' = d
    /\ lastOp' = Op("onReady", <<>>)
    /\ UNCHANGED <<variant, currentIndex, counters, loopRunning, isManualMode,
                   manualIndex, isPausedAtTranquility, refs, player, sched,
                   history>>

(* ------------------------------ handlers ------------------------------- *)

\* Faulty variant: the reset zeroes the counters and forgets the ledger.
ResetCounting_KeepsLedger ==
    /\ startsWithT' = 0 /\ endsWithE' = 0 /\ doesBoth' = 0
    /\ UNCHANGED countedWordsRef

\* The counters and the ledger are reset together (lines 298-302, 321-325,
\* 841-850).
ResetCounting ==
    /\ startsWithT' = 0 /\ endsWithE' = 0 /\ doesBoth' = 0
    /\ countedWordsRef' = {}

\* handleStartWithVideo.  Variant 1 resets inline (lines 297-308), variant 2
\* through resetAll (lines 839-852), which knows no pause protocol state.
\* Faulty variant: the start looks at the player object only, not at ready.
StartRefused_IgnoresReady(methodsMissing) ==
    playerRef = "null"

\* The guards of handleStartWithVideo: no player object, not ready, or the
\* player object has no seekTo or no playVideo function.
StartRefused(methodsMissing) ==
    playerRef = "null" \/ ~ready \/ methodsMissing

\* Whether a player call of a start throws.  seekTo and playVideo share one
\* try block whose catch only logs (lines 310-316, 871-877), so a throw of
\* either leaves the driver in the same state; the throw is drawn at
\* playVideo, after the seek has been done.
StartFaults == {"none", "playVideo"}

handleStartWithVideo ==
    /\ ~EffectsPending
    /\ \E methodsMissing \in BOOLEAN, fault \in StartFaults :
       IF StartRefused(methodsMissing)
       THEN /\ fault = "none"
            /\ lastOp' = Op("startVideo:refused", <<>>)
            /\ UNCHANGED <<variant, reactState, refs, player, sched,
                           history>>
       ELSE /\ ResetCounting
            /\ currentIndex' = -1
            /\ isManualMode' = FALSE
            /\ manualIndex' = -1
            /\ isPausedAtTranquility' = FALSE
            /\ pauseStartTimeRef' = -1
            /\ hasPausedAtTranquilityRef' = FALSE
            /\ lastIndexRef' = -1
            /\ triggers' = 0
            /\ manualTicks' = 0
            /\ rewound' = FALSE
            /\ UNCHANGED <<variant, ready, duration, playerRef, events, sched>>
            /\ IF fault = "none"
               THEN /\ playerTime' = SegStart(variant)
                    /\ playerState' = "playing"
                    /\ loopRunning' = TRUE
                    /\ lastOp' = Op("startVideo", <<"seekTo", "playVideo">>)
               ELSE \* catch (lines 314-316, 875-877): setLoopRunning(true)
                    \* is skipped, the reset before the try block stays
                    /\ playerTime' = SegStart(variant)
                    /\ UNCHANGED <<playerState, loopRunning>>
                    /\ lastOp' = OpThrew("startVideo:error",
                                         <<"seekTo", "playVideo">>)

\* handleStartManual.  Variant 1 (lines 319-341) leaves lastIndexRef alone,
\* and renders no button for it (lines 415-423): nothing ever calls it there.
handleStartManual ==
    /\ variant = 2
    /\ ~EffectsPending
    /\ Len(events) < MaxEvents
    /\ ResetCounting
    /\ currentIndex' = -1
    /\ manualIndex' = -1
    /\ loopRunning' = FALSE
    /\ isManualMode' = TRUE
    /\ isPausedAtTranquility' = FALSE
    /\ pauseStartTimeRef' = -1
    /\ hasPausedAtTranquilityRef' = FALSE
    /\ lastIndexRef' = IF variant = 1 THEN lastIndexRef ELSE -1
    /\ IF HasMethods
       THEN /\ playerState' = PauseState(playerState)
            /\ events' = PauseEvents(playerState, events)
            /\ lastOp' = Op("startManual", <<"pauseVideo">>)
       ELSE /\ UNCHANGED <<playerState, events>>
            /\ lastOp' = Op("startManual", <<>>)
    /\ triggers' = 0
    /\ manualTicks' = 0
    /\ rewound' = FALSE
    /\ UNCHANGED <<variant, ready, duration, playerRef, playerTime, sched>>

(* ------------------------------- effects ------------------------------- *)

\* Faulty variant: the effect has no cleanup, a requested frame stays requested.
SyncEffect_NoCleanup ==
    /\ SyncPending
    /\ LET starts == loopRunning /\ playerRef # "null" /\ duration > 0
                        /\ ~isManualMode /\ ready
       IN  /\ frames' = frames + (IF starts THEN 1 ELSE 0)
           /\ rafPending' = (frames' > 0)
           /\ rafPaused' = (starts /\ isPausedAtTranquility)
    /\ syncDeps' = SyncDepsNow
    /\ lastOp' = Op("syncEffect", <<>>)
    /\ UNCHANGED <<variant, reactState, refs, player, manualTimer, timeouts, resumeTimers,
                   playTimers, manualDeps, history>>

\* useEffect(..., [loopRunning, duration, isManualMode, ready]): the cleanup
\* of the previous run cancels the pending frame, then the body runs.
\* `!duration` is true of null and of 0.
SyncEffect ==
    /\ SyncPending
    /\ LET starts == loopRunning /\ playerRef # "null" /\ duration > 0
                        /\ ~isManualMode /\ ready
       IN  /\ frames' = Cancelled(frames) + (IF starts THEN 1 ELSE 0)
           /\ rafPending' = (frames' > 0)
           /\ rafPaused' = (starts /\ isPausedAtTranquility)
    /\ syncDeps' = SyncDepsNow
    /\ lastOp' = Op("syncEffect", <<>>)
    /\ UNCHANGED <<variant, reactState, refs, player, manualTimer, timeouts, resumeTimers,
                   playTimers, manualDeps, history>>

\* Faulty variant: the manual run never stops by itself.
AtLastWord_Never == FALSE

\* Faulty variant: the stop test is off by one.
AtLastWord_OffByOne == manualIndex >= NumWords(variant)

\* if (manualIndex >= words.length - 1): the manual run is over.
AtLastWord == manualIndex >= NumWords(variant) - 1

\* useEffect(..., [isManualMode, manualIndex, loopRunning]): clears the
\* pending timer, then stops manual mode at the last word or re-arms.
ManualEffect ==
    /\ ManualPending
    /\ ~SyncPending
    /\ manualDeps' = ManualDepsNow
    /\ IF ~isManualMode \/ loopRunning
       THEN /\ timeouts' = Cancelled(timeouts)
            /\ manualTimer' = (timeouts' > 0)
            /\ UNCHANGED isManualMode
            /\ lastOp' = Op("manualEffect:off", <<>>)
       ELSE IF AtLastWord
       THEN /\ timeouts' = Cancelled(timeouts)
            /\ manualTimer' = (timeouts' > 0)
            /\ isManualMode' = FALSE
            /\ lastOp' = Op("manualEffect:stop", <<>>)
       ELSE /\ timeouts' = Cancelled(timeouts) + 1
            /\ manualTimer' = (timeouts' > 0)
            /\ UNCHANGED isManualMode
            /\ lastOp' = Op("manualEffect:arm", <<>>)
    /\ UNCHANGED <<variant, ready, duration, currentIndex, counters, loopRunning,
                   manualIndex, isPausedAtTranquility, refs, player, rafPending, frames,
                   rafPaused, resumeTimers, playTimers, syncDeps, history>>

\* The manual timer callback: setManualIndex(prev => prev + 1) and the
\* counter updates of the new word.  No ledger is consulted.
ManualTimerFire ==
    /\ manualTimer
    /\ ~EffectsPending
    /\ timeouts' = timeouts - 1
    /\ manualTimer' = (timeouts' > 0)
    /\ LET nextIndex == manualIndex + 1
           counted == nextIndex < NumWords(variant)
           bits == ManualBits(variant, nextIndex)
       IN  /\ manualIndex' = nextIndex
           /\ startsWithT' = IF counted /\ bits.startsT THEN startsWithT + 1 ELSE startsWithT
           /\ endsWithE' = IF counted /\ bits.endsE THEN endsWithE + 1 ELSE endsWithE
           /\ doesBoth' = IF counted /\ bits.both THEN doesBoth + 1 ELSE doesBoth
    /\ manualTicks' = manualTicks + 1
    /\ lastOp' = Op("manualTick", <<>>)
    /\ UNCHANGED <<variant, ready, duration, currentIndex, loopRunning, isManualMode,
                   isPausedAtTranquility, refs, player, rafPending, frames, rafPaused,
                   resumeTimers, playTimers, syncDeps, manualDeps, triggers,
                   rewound>>

(* --------------------------- the video loop ---------------------------- *)

\* const wordKey = `${index}-${word}`
wordKey(v, index) == <<index, VideoWord(v, index)>>

\* Faulty variant: the count logic does not consult the ledger.
NotCounted_NoLedger(v, index) == TRUE

\* The ledger test of the count logic: !countedWordsRef.current.has(wordKey)
NotCounted(v, index) == wordKey(v, index) \notin countedWordsRef

\* Faulty variant: a revisited word is taken out of the counters again.
ApplyAndCount_Uncounts(index) ==
    LET fresh == NotCounted(variant, index)
        bits == VideoBits(variant, index)
        step == IF fresh THEN 1 ELSE -1
    IN  /\ lastIndexRef' = index
        /\ currentIndex' = index
        /\ countedWordsRef' = countedWordsRef \cup {wordKey(variant, index)}
        /\ startsWithT' = IF bits.startsT THEN startsWithT + step ELSE startsWithT
        /\ endsWithE' = IF bits.endsE THEN endsWithE + step ELSE endsWithE
        /\ doesBoth' = IF bits.both THEN doesBoth + step ELSE doesBoth
        /\ lastOp' = Op(IF fresh THEN "tick:counted" ELSE "tick:recounted", <<>>)

\* Faulty variant: the word is counted and its key is never added to the ledger.
ApplyAndCount_NoInsert(index) ==
    LET fresh == NotCounted(variant, index)
        bits == VideoBits(variant, index)
    IN  /\ lastIndexRef' = index
        /\ currentIndex' = index
        /\ UNCHANGED countedWordsRef
        /\ startsWithT' = IF fresh /\ bits.startsT THEN startsWithT + 1 ELSE startsWithT
        /\ endsWithE' = IF fresh /\ bits.endsE THEN endsWithE + 1 ELSE endsWithE
        /\ doesBoth' = IF fresh /\ bits.both THEN doesBoth + 1 ELSE doesBoth
        /\ lastOp' = Op(IF fresh THEN "tick:counted" ELSE "tick:recounted", <<>>)

\* lastIndexRef.current = index; setCurrentIndex(index); count the word once.
ApplyAndCount(index) ==
    LET fresh == NotCounted(variant, index)
        bits == VideoBits(variant, index)
    IN  /\ lastIndexRef' = index
        /\ currentIndex' = index
        /\ countedWordsRef' = countedWordsRef \cup {wordKey(variant, index)}
        /\ startsWithT' = IF fresh /\ bits.startsT THEN startsWithT + 1 ELSE startsWithT
        /\ endsWithE' = IF fresh /\ bits.endsE THEN endsWithE + 1 ELSE endsWithE
        /\ doesBoth' = IF fresh /\ bits.both THEN doesBoth + 1 ELSE doesBoth
        /\ lastOp' = Op(IF fresh THEN "tick:counted" ELSE "tick:recounted", <<>>)

\* Faulty variant: the keyword pause does not test its latch.
TriggersPause_NoLatch(index) ==
    /\ variant = 1
    /\ normalizeWord(WordAt(variant, index)) = TRANQUILITY

\* The guard of the keyword pause (variant 1, line 159).
TriggersPause(index) ==
    /\ variant = 1
    /\ normalizeWord(WordAt(variant, index)) = TRANQUILITY
    /\ ~hasPausedAtTranquilityRef

\* Faulty variant: the guard does not compare with the last applied index.
Advances_EveryFrame(index) ==
    index >= 0 /\ index < NumWords(variant)

\* The advancement guard (lines 153, 743).
Advances(index) ==
    index # lastIndexRef /\ index >= 0 /\ index < NumWords(variant)

\* What a tick leaves alone when it only schedules the next frame.
TickKeeps ==
    UNCHANGED <<currentIndex, counters, loopRunning, isPausedAtTranquility,
                countedWordsRef, pauseStartTimeRef, hasPausedAtTranquilityRef,
                lastIndexRef, playerState, events, resumeTimers, triggers>>

\* Faulty variant: a time before the segment is mapped as progress 0 and the
\* first word is applied and counted.
BeforeStartTick_AppliesFirst ==
    \* the frame that ran is spent; requestAnimationFrame(update) asks for one
    /\ frames' = frames - 1 + 1
    /\ rafPending' = (frames' > 0)
    /\ ApplyAndCount(0)
    /\ UNCHANGED <<loopRunning, isPausedAtTranquility, pauseStartTimeRef,
                   hasPausedAtTranquilityRef, playerState, events,
                   resumeTimers, triggers>>

\* if (currentTime < startOffset): another frame and nothing else
\* (lines 115-118, 711-714).
BeforeStartTick ==
    /\ frames' = frames - 1 + 1
    /\ rafPending' = (frames' > 0)
    /\ lastOp' = Op("tick:beforeStart", <<>>)
    /\ TickKeeps

\* try { playerRef.current.pauseVideo() } catch { console.error } of the
\* trigger (lines 168-175): the call pauses the player or throws.
TriggerPauseCall ==
    \E throws \in BOOLEAN :
        IF throws
        THEN /\ UNCHANGED <<playerState, events>>
             /\ lastOp' = OpThrew("tick:trigger", <<"pauseVideo">>)
        ELSE /\ IF HasMethods
                THEN /\ playerState' = PauseState(playerState)
                     /\ events' = PauseEvents(playerState, events)
                ELSE UNCHANGED <<playerState, events>>
             /\ lastOp' = Op("tick:trigger", <<"pauseVideo">>)

\* Faulty variant: the trigger pauses the video and arms no timer.
PauseAtKeyword_NoTimer(index, currentTime) ==
    /\ resumeTimers < MaxTimers
    /\ hasPausedAtTranquilityRef' = TRUE
    /\ isPausedAtTranquility' = TRUE
    /\ pauseStartTimeRef' = currentTime
    /\ lastIndexRef' = index
    /\ currentIndex' = index
    /\ TriggerPauseCall
    /\ UNCHANGED resumeTimers
    /\ triggers' = triggers + 1
    /\ frames' = frames - 1 + 1
    /\ rafPending' = (frames' > 0)
    /\ UNCHANGED <<counters, loopRunning, countedWordsRef>>

\* Faulty variant: the trigger pauses the video and leaves the latch clear.
PauseAtKeyword_NoLatch(index, currentTime) ==
    /\ resumeTimers < MaxTimers
    /\ UNCHANGED hasPausedAtTranquilityRef
    /\ isPausedAtTranquility' = TRUE
    /\ pauseStartTimeRef' = currentTime
    /\ lastIndexRef' = index
    /\ currentIndex' = index
    /\ TriggerPauseCall
    /\ resumeTimers' = resumeTimers + 1
    /\ triggers' = triggers + 1
    /\ frames' = frames - 1 + 1
    /\ rafPending' = (frames' > 0)
    /\ UNCHANGED <<counters, loopRunning, countedWordsRef>>

\* Faulty variant: the trigger tick also counts the keyword.
PauseAtKeyword_Counts(index, currentTime) ==
    /\ resumeTimers < MaxTimers
    /\ hasPausedAtTranquilityRef' = TRUE
    /\ isPausedAtTranquility' = TRUE
    /\ pauseStartTimeRef' = currentTime
    /\ lastIndexRef' = index
    /\ currentIndex' = index
    /\ TriggerPauseCall
    /\ resumeTimers' = resumeTimers + 1
    /\ triggers' = triggers + 1
    /\ frames' = frames - 1 + 1
    /\ rafPending' = (frames' > 0)
    /\ countedWordsRef' = countedWordsRef \cup {wordKey(variant, index)}
    /\ startsWithT' = startsWithT + 1
    /\ UNCHANGED <<endsWithE, doesBoth, loopRunning>>

\* The keyword trigger (lines 159-213): latch, pause flag, pause time, index,
\* pauseVideo(), the 300 ms timer, another frame, and no count.
PauseAtKeyword(index, currentTime) ==
    /\ resumeTimers < MaxTimers
    /\ hasPausedAtTranquilityRef' = TRUE
    /\ isPausedAtTranquility' = TRUE
    /\ pauseStartTimeRef' = currentTime
    /\ lastIndexRef' = index
    /\ currentIndex' = index
    /\ TriggerPauseCall
    /\ resumeTimers' = resumeTimers + 1
    /\ triggers' = triggers + 1
    /\ frames' = frames - 1 + 1
    /\ rafPending' = (frames' > 0)
    /\ UNCHANGED <<counters, loopRunning, countedWordsRef>>

\* What the player does to one frame: nothing, getCurrentTime() throws, or
\* the player object no longer has a getCurrentTime function.
TickFaults == {"none", "throws", "noMethods"}

\* One run of `update`, the requestAnimationFrame callback.
UpdateTick ==
    /\ rafPending
    /\ ~EffectsPending
    /\ Len(events) < MaxEvents
    /\ UNCHANGED <<variant, ready, duration, isManualMode, manualIndex, playerRef,
                   playerTime, manualTimer, timeouts, playTimers, syncDeps, manualDeps,
                   manualTicks, rafPaused, rewound>>
    /\ \E fault \in TickFaults :
        LET currentTime == playerTime
            index == IndexAt(variant, currentTime)
            keep == UNCHANGED <<currentIndex, counters, loopRunning,
                                isPausedAtTranquility, countedWordsRef,
                                pauseStartTimeRef, hasPausedAtTranquilityRef,
                                lastIndexRef, playerState, events, resumeTimers,
                                triggers>>
        IN
        IF playerRef = "null" \/ fault = "noMethods"
        THEN \* no player or no getCurrentTime: return, no other frame
             /\ fault # "throws"
             /\ frames' = frames - 1
             /\ rafPending' = (frames' > 0)
             /\ lastOp' = Op("tick:noPlayer", <<>>)
             /\ keep
        ELSE IF fault = "throws"
        THEN \* getCurrentTime() threw: catch, setLoopRunning(false)
             /\ frames' = frames - 1
             /\ rafPending' = (frames' > 0)
             /\ loopRunning' = FALSE
             /\ lastOp' = Op("tick:error", <<>>)
             /\ UNCHANGED <<currentIndex, counters, isPausedAtTranquility,
                            countedWordsRef, pauseStartTimeRef,
                            hasPausedAtTranquilityRef, lastIndexRef, playerState,
                            events, resumeTimers, triggers>>
        ELSE IF currentTime < SegStart(variant)
        THEN BeforeStartTick
        ELSE IF currentTime > SegEnd(variant)
        THEN IF variant = 1
             THEN \* lines 121-125: last word, and another frame
                  /\ currentIndex' = NumWords(variant) - 1
                  /\ frames' = frames - 1 + 1
                  /\ rafPending' = (frames' > 0)
                  /\ lastOp' = Op("tick:pastEnd", <<>>)
                  /\ UNCHANGED <<counters, loopRunning, isPausedAtTranquility,
                                 countedWordsRef, pauseStartTimeRef,
                                 hasPausedAtTranquilityRef, lastIndexRef,
                                 playerState, events, resumeTimers, triggers>>
             ELSE \* lines 717-729: last word, stop, pause the video
                  /\ currentIndex' = NumWords(variant) - 1
                  /\ loopRunning' = FALSE
                  /\ frames' = frames - 1
                  /\ rafPending' = (frames' > 0)
                  /\ IF HasMethods
                     THEN /\ playerState' = PauseState(playerState)
                          /\ events' = PauseEvents(playerState, events)
                          /\ lastOp' = Op("tick:pastEnd", <<"pauseVideo">>)
                     ELSE /\ UNCHANGED <<playerState, events>>
                          /\ lastOp' = Op("tick:pastEnd", <<>>)
                  /\ UNCHANGED <<counters, isPausedAtTranquility, countedWordsRef,
                                 pauseStartTimeRef, hasPausedAtTranquilityRef,
                                 lastIndexRef, resumeTimers, triggers>>
        ELSE IF variant = 1 /\ rafPaused
        THEN \* lines 143-151: pinned to the keyword while paused
             /\ currentIndex' = IF tranquilityIndex1 >= 0 THEN tranquilityIndex1
                                ELSE currentIndex
             /\ frames' = frames - 1 + 1
             /\ rafPending' = (frames' > 0)
             /\ lastOp' = Op("tick:pinned", <<>>)
             /\ UNCHANGED <<counters, loopRunning, isPausedAtTranquility,
                            countedWordsRef, pauseStartTimeRef,
                            hasPausedAtTranquilityRef, lastIndexRef, playerState,
                            events, resumeTimers, triggers>>
        ELSE IF ~Advances(index)
        THEN /\ frames' = frames - 1 + 1
             /\ rafPending' = (frames' > 0)
             /\ lastOp' = Op("tick:same", <<>>)
             /\ keep
        ELSE IF TriggersPause(index)
        THEN PauseAtKeyword(index, currentTime)
        ELSE /\ ApplyAndCount(index)
             /\ frames' = frames - 1 + 1
             /\ rafPending' = (frames' > 0)
             /\ UNCHANGED <<loopRunning, isPausedAtTranquility, pauseStartTimeRef,
                            hasPausedAtTranquilityRef, playerState, events,
                            resumeTimers, triggers>>

\* The 300 ms timer of the pause protocol (lines 178-209).
ResumeTimerFire ==
    /\ resumeTimers > 0
    /\ ~EffectsPending
    /\ playTimers < MaxTimers
    /\ resumeTimers' = resumeTimers - 1
    /\ \E throws \in BOOLEAN :
       IF playerRef = "null"
       THEN /\ ~throws
            /\ lastOp' = Op("resumeTimer:noPlayer", <<>>)
            /\ UNCHANGED <<playerTime, lastIndexRef, isPausedAtTranquility,
                           pauseStartTimeRef, playTimers, rewound>>
       ELSE IF throws
       THEN \* seekTo threw: catch (lines 204-208) clears the pause state
            /\ isPausedAtTranquility' = FALSE
            /\ pauseStartTimeRef' = -1
            /\ lastOp' = OpThrew("resumeTimer:error", <<"seekTo">>)
            /\ UNCHANGED <<playerTime, lastIndexRef, playTimers, rewound>>
       ELSE LET pausedTime == IF pauseStartTimeRef > 0 THEN pauseStartTimeRef
                              ELSE playerTime
            IN  /\ playerTime' = pausedTime + SEEK_FORWARD
                /\ rewound' = (rewound \/ (loopRunning /\ pausedTime + SEEK_FORWARD < playerTime))
                /\ lastIndexRef' = IF tranquilityIndex1 >= 0 THEN tranquilityIndex1
                                   ELSE lastIndexRef
                /\ isPausedAtTranquility' = FALSE
                /\ pauseStartTimeRef' = -1
                /\ playTimers' = playTimers + 1
                /\ lastOp' = Op("resumeTimer", <<"seekTo">>)
    /\ UNCHANGED <<variant, ready, duration, currentIndex, counters, loopRunning,
                   isManualMode, manualIndex, playerRef, countedWordsRef,
                   hasPausedAtTranquilityRef, playerState, events, rafPending, frames,
                   rafPaused, manualTimer, timeouts, syncDeps, manualDeps, triggers,
                   manualTicks>>

\* The nested 50 ms timer: playVideo().
PlayTimerFire ==
    /\ playTimers > 0
    /\ ~EffectsPending
    /\ playTimers' = playTimers - 1
    /\ \E throws \in BOOLEAN :
       IF HasMethods /\ throws
       THEN \* playVideo() threw, outside every try block (lines 198-202)
            /\ UNCHANGED playerState
            /\ lastOp' = OpThrew("playTimer:error", <<"playVideo">>)
       ELSE IF HasMethods
       THEN /\ ~throws
            /\ playerState' = "playing"
            /\ lastOp' = Op("playTimer", <<"playVideo">>)
       ELSE /\ ~throws
            /\ UNCHANGED playerState
            /\ lastOp' = Op("playTimer", <<>>)
    /\ UNCHANGED <<variant, reactState, refs, playerTime, events, rafPending, frames,
                   rafPaused, manualTimer, timeouts, resumeTimers, syncDeps, manualDeps,
                   history>>

\* Faulty variant: ENDED shows the last word and leaves the loop running.
OnEnded_KeepsLoop ==
    /\ UNCHANGED loopRunning
    /\ currentIndex' = NumWords(variant) - 1
    /\ lastOp' = Op("event:ENDED", <<>>)

\* if (event.data === YT.PlayerState.ENDED): setLoopRunning(false);
\* setCurrentIndex(words.length - 1) (lines 61-64, 645-649).
OnEnded ==
    /\ loopRunning' = FALSE
    /\ currentIndex' = NumWords(variant) - 1
    /\ lastOp' = Op("event:ENDED", <<>>)

\* onStateChange: ENDED stops the loop on the last word; PAUSED stops the
\* loop, in variant 1 only while the latch is clear (lines 59-74, 643-655).
onStateChange ==
    /\ events # <<>>
    /\ ~EffectsPending
    /\ events' = Tail(events)
    /\ LET data == Head(events).data
       IN  IF data = "ENDED"
           THEN OnEnded
           ELSE IF data = "PAUSED" /\ (variant = 2 \/ ~hasPausedAtTranquilityRef)
           THEN /\ loopRunning' = FALSE
                /\ UNCHANGED currentIndex
                /\ lastOp' = Op("event:PAUSED:stop", <<>>)
           ELSE /\ UNCHANGED <<loopRunning, currentIndex>>
                /\ lastOp' = Op("event:PAUSED:ignored", <<>>)
    /\ UNCHANGED <<variant, ready, duration, counters, isManualMode, manualIndex,
                   isPausedAtTranquility, refs, playerTime, playerState, sched,
                   history>>

(* ---------------------- the player's own behaviour --------------------- *)

\* Playback moves the clock to the next reported time.
PlayerAdvance ==
    /\ ready /\ ~EffectsPending
    /\ playerState = "playing"
    /\ playerTime < MaxTime(variant)
    /\ playerTime' = NextTime(variant, playerTime)
    /\ lastOp' = Op("transport", <<>>)
    /\ UNCHANGED <<variant, reactState, refs, playerState, events, sched,
                   history>>

\* The video plays to its end.
PlayerEnds ==
    /\ ready /\ ~EffectsPending
    /\ playerState = "playing"
    /\ playerTime >= MaxTime(variant)
    /\ Len(events) < MaxEvents
    /\ playerState' = "ended"
    /\ events' = Append(events, Event("ENDED", "player"))
    /\ lastOp' = Op("transport", <<>>)
    /\ UNCHANGED <<variant, reactState, refs, playerTime, sched, history>>

\* The user pauses in the player's own controls.
UserPause ==
    /\ ready /\ ~EffectsPending
    /\ playerState = "playing"
    /\ Len(events) < MaxEvents
    /\ playerState' = "paused"
    /\ events' = Append(events, Event("PAUSED", "user"))
    /\ lastOp' = Op("transport", <<>>)
    /\ UNCHANGED <<variant, reactState, refs, playerTime, sched, history>>

\* The user resumes in the player's own controls.
UserPlay ==
    /\ ready /\ ~EffectsPending
    /\ playerState = "paused"
    /\ playerState' = "playing"
    /\ lastOp' = Op("transport", <<>>)
    /\ UNCHANGED <<variant, reactState, refs, playerTime, events, sched,
                   history>>

\* The user drags the player's seek bar while the loop polls the clock (at
\* other times the driver does not read the clock, and a start seeks anew).
UserSeek ==
    /\ ready /\ ~EffectsPending
    /\ playerState \in {"playing", "paused"}
    /\ rafPending
    /\ \E t \in Times(variant) :
        /\ t # playerTime
        /\ playerTime' = t
        /\ rewound' = (rewound \/ (loopRunning /\ t < playerTime))
    /\ lastOp' = Op("transport", <<>>)
    /\ UNCHANGED <<variant, reactState, refs, playerState, events, sched,
                   triggers, manualTicks>>

Next ==
    \/ onYouTubeIframeAPIReady
    \/ onReady
    \/ handleStartWithVideo
    \/ handleStartManual
    \/ SyncEffect
    \/ ManualEffect
    \/ ManualTimerFire
    \/ UpdateTick
    \/ ResumeTimerFire
    \/ PlayTimerFire
    \/ onStateChange
    \/ PlayerAdvance
    \/ PlayerEnds
    \/ UserPause
    \/ UserPlay
    \/ UserSeek

Spec == Init /\ [][Next]_vars

\* The manual timer and the effects run whenever they stay due.
LiveSpec ==
    /\ Spec
    /\ WF_vars(ManualTimerFire)
    /\ WF_vars(ManualEffect)
    /\ WF_vars(SyncEffect)

\* Variant 2 on its own: it has no keyword timers.
Init2 == Init /\ variant = 2

Next2 ==
    \/ onYouTubeIframeAPIReady
    \/ onReady
    \/ handleStartWithVideo
    \/ handleStartManual
    \/ SyncEffect
    \/ ManualEffect
    \/ ManualTimerFire
    \/ UpdateTick
    \/ onStateChange
    \/ PlayerAdvance
    \/ PlayerEnds
    \/ UserPause
    \/ UserPlay
    \/ UserSeek

\* Variant 2 with its manual timer and its effects running whenever they
\* stay due.
ManualLiveSpec ==
    /\ Init2
    /\ [][Next2]_vars
    /\ WF_vars(ManualTimerFire)
    /\ WF_vars(ManualEffect)
    /\ WF_vars(SyncEffect)

\* Variant 1 on its own, with the clock moved by playback, by the starts and
\* by the keyword timer only (the viewer leaves the seek bar alone).  Nothing
\* calls handleStartManual in variant 1, so no manual timer is ever armed.
Init1 == Init /\ variant = 1

Next1 ==
    \/ onYouTubeIframeAPIReady
    \/ onReady
    \/ handleStartWithVideo
    \/ SyncEffect
    \/ ManualEffect
    \/ UpdateTick
    \/ ResumeTimerFire
    \/ PlayTimerFire
    \/ onStateChange
    \/ PlayerAdvance
    \/ PlayerEnds
    \/ UserPause
    \/ UserPlay

\* Variant 1 with the timers of the keyword protocol firing when they stay
\* due, and the effects running.
KeywordLiveSpec ==
    /\ Init1
    /\ [][Next1]_vars
    /\ WF_vars(ResumeTimerFire)
    /\ WF_vars(PlayTimerFire)
    /\ WF_vars(ManualEffect)
    /\ WF_vars(SyncEffect)

(* ------------------- the progress mapping on its own ------------------- *)

\* Every whole percent of the segment, as a clock value.
PercentTimes(v) == {TimeOfPct(v, n) : n \in 0..100}

\* The component before any start, with the clock at any percent of the
\* segment.
MapInit ==
    /\ variant \in {1, 2}
    /\ playerTime \in PercentTimes(variant)
    /\ playerRef = "null"
    /\ ready = FALSE
    /\ duration = -1
    /\ currentIndex = -1
    /\ startsWithT = 0 /\ endsWithE = 0 /\ doesBoth = 0
    /\ loopRunning = FALSE
    /\ isManualMode = FALSE
    /\ manualIndex = -1
    /\ isPausedAtTranquility = FALSE
    /\ countedWordsRef = {}
    /\ pauseStartTimeRef = -1
    /\ hasPausedAtTranquilityRef = FALSE
    /\ lastIndexRef = -1
    /\ playerState = "unstarted"
    /\ events = <<>>
    /\ rafPending = FALSE
    /\ frames = 0
    /\ rafPaused = FALSE
    /\ manualTimer = FALSE
    /\ timeouts = 0
    /\ resumeTimers = 0
    /\ playTimers = 0
    /\ syncDeps = <<FALSE, -1, FALSE, FALSE>>
    /\ manualDeps = <<FALSE, -1, FALSE>>
    /\ lastOp = Op("map:input", <<>>)
    /\ triggers = 0
    /\ manualTicks = 0
    /\ rewound = FALSE

MapKeeps ==
    UNCHANGED <<variant, ready, duration, counters, loopRunning, isManualMode,
                manualIndex, isPausedAtTranquility, playerRef, countedWordsRef,
                pauseStartTimeRef, hasPausedAtTranquilityRef, playerState,
                events, sched, history>>

\* const index = Math.floor(easedProgress * words.length) for the clock
\* value at hand; the result is kept as computed, before any guard.
MapApply ==
    /\ lastOp.op = "map:input"
    /\ currentIndex' = IndexAt(variant, playerTime)
    /\ lastOp' = Op("map:applied", <<>>)
    /\ UNCHANGED <<playerTime, lastIndexRef>>
    /\ MapKeeps

\* The same computation for a clock value that is not earlier; the index of
\* the earlier value is kept next to it.
MapLater ==
    /\ lastOp.op = "map:applied"
    /\ \E t \in PercentTimes(variant) :
        /\ t >= playerTime
        /\ playerTime' = t
        /\ currentIndex' = IndexAt(variant, t)
    /\ lastIndexRef' = currentIndex
    /\ lastOp' = Op("map:later", <<>>)
    /\ MapKeeps

MapNext == MapApply \/ MapLater

MapSpec == MapInit /\ [][MapNext]_vars

(* --------------------- the classification on its own ------------------- *)

\* The words handed to computeCounts: the tokens of the passage, 0-based,
\* and the empty string after them.
ProbeWord(v, i) == IF i < NumWords(v) THEN WordAt(v, i) ELSE <<>>

\* The component before any start, with the manual index on any word to
\* classify.
ClassifyInit ==
    /\ variant \in {1, 2}
    /\ manualIndex \in 0..NumWords(variant)
    /\ playerTime = 0
    /\ playerRef = "null"
    /\ ready = FALSE
    /\ duration = -1
    /\ currentIndex = -1
    /\ startsWithT = 0 /\ endsWithE = 0 /\ doesBoth = 0
    /\ loopRunning = FALSE
    /\ isManualMode = FALSE
    /\ isPausedAtTranquility = FALSE
    /\ countedWordsRef = {}
    /\ pauseStartTimeRef = -1
    /\ hasPausedAtTranquilityRef = FALSE
    /\ lastIndexRef = -1
    /\ playerState = "unstarted"
    /\ events = <<>>
    /\ rafPending = FALSE
    /\ frames = 0
    /\ rafPaused = FALSE
    /\ manualTimer = FALSE
    /\ timeouts = 0
    /\ resumeTimers = 0
    /\ playTimers = 0
    /\ syncDeps = <<FALSE, -1, FALSE, FALSE>>
    /\ manualDeps = <<FALSE, -1, FALSE>>
    /\ lastOp = Op("classify:input", <<>>)
    /\ triggers = 0
    /\ manualTicks = 0
    /\ rewound = FALSE

\* const counts = computeCounts(word), and one increment of each counter
\* whose bit is set (lines 754-765, 812-821).
Classify ==
    /\ lastOp.op = "classify:input"
    /\ LET counts == computeCounts(ProbeWord(variant, manualIndex))
       IN  /\ startsWithT' = IF counts.startsT THEN startsWithT + 1 ELSE startsWithT
           /\ endsWithE' = IF counts.endsE THEN endsWithE + 1 ELSE endsWithE
           /\ doesBoth' = IF counts.both THEN doesBoth + 1 ELSE doesBoth
    /\ lastOp' = Op("classify:done", <<>>)
    /\ UNCHANGED <<variant, ready, duration, currentIndex, loopRunning,
                   isManualMode, manualIndex, isPausedAtTranquility, refs,
                   player, sched, history>>

ClassifySpec == ClassifyInit /\ [][Classify]_vars

(* ------------------------------ properties ----------------------------- *)

\* The start commands that ran their reset; in "startVideo:error" a player
\* call threw after the reset.
StartOps == {"startVideo", "startVideo:error", "startManual"}

LastWord == NumWords(variant) - 1

\* computeCounts of every word of the passage, by index.
Class1 == [i \in 0..(Len(words1) - 1) |-> computeCounts(words1[i + 1])]

Class2 == [i \in 0..(Len(words2) - 1) |-> computeCounts(words2[i + 1])]

ClassOf(v, i) == IF v = 1 THEN Class1[i] ELSE Class2[i]

\* Indices in the ledger whose word has the classification bit.
LedgerCount(bit) ==
    Cardinality({k \in countedWordsRef : ClassOf(variant, k[1])[bit]})

\* For each bit and each index, how many of the words 0..index have the bit.
PassageTable1 ==
    [bit \in {"startsT", "endsE", "both"} |->
        [upTo \in -1..(Len(words1) - 1) |->
            Cardinality({i \in 0..upTo : Class1[i][bit]})]]

PassageTable2 ==
    [bit \in {"startsT", "endsE", "both"} |->
        [upTo \in -1..(Len(words2) - 1) |->
            Cardinality({i \in 0..upTo : Class2[i][bit]})]]

\* Words 0..upTo of the passage that have the classification bit.
PassageCount(bit, upTo) ==
    IF upTo \in -1..LastWord
    THEN IF variant = 1 THEN PassageTable1[bit][upTo] ELSE PassageTable2[bit][upTo]
    ELSE Cardinality({i \in 0..upTo : ClassOf(variant, i)[bit]})

\* C1: a video tick never removes a ledger entry, and it changes a counter
\* only when its mapped index is not in the ledger yet, which it then
\* enters: an index already in the ledger changes none of the counters.
C1_DedupAtMostOnce ==
    [][UpdateTick =>
        /\ countedWordsRef \subseteq countedWordsRef'
        /\ (counters' # counters =>
              LET index == IndexAt(variant, playerTime)
              IN  /\ \A k \in countedWordsRef : k[1] # index
                  /\ countedWordsRef' = countedWordsRef \cup {wordKey(variant, index)})]_vars

\* C1 witness: a tick applied an index whose key the ledger already held.
C1_RevisitSeen ==
    /\ lastOp.op = "tick:recounted"
    /\ \E k \in countedWordsRef : k[1] = lastIndexRef
    /\ Cardinality(countedWordsRef) >= 2

\* C2 as stated: each counter equals the number of ledger indices with its
\* classification bit, in every reachable state of either mode.
C2_CountersMatchLedger ==
    /\ startsWithT = LedgerCount("startsT")
    /\ endsWithE = LedgerCount("endsE")
    /\ doesBoth = LedgerCount("both")

\* C2 amended: each counter equals the number of ledger indices with its bit
\* plus the number of words 0..manualIndex with its bit; the manual timer
\* counts without the ledger.
C2_CountersMatchLedgerOrManual ==
    /\ startsWithT = LedgerCount("startsT") + PassageCount("startsT", manualIndex)
    /\ endsWithE = LedgerCount("endsE") + PassageCount("endsE", manualIndex)
    /\ doesBoth = LedgerCount("both") + PassageCount("both", manualIndex)

\* C2 witness: a manual run has counted words while the ledger is empty.
C2_ManualCountedNoLedger ==
    /\ isManualMode
    /\ doesBoth > 0
    /\ countedWordsRef = {}

\* C3: right after a start command that does not refuse, the counters are 0,
\* the ledger is empty, both indices are -1, the latch and the pause flag
\* are clear; and no step empties the ledger or lowers a counter without
\* zeroing all counters and emptying the ledger.
C3_StartResets ==
    /\ [](lastOp.op \in StartOps =>
            /\ counters = <<0, 0, 0>>
            /\ countedWordsRef = {}
            /\ currentIndex = -1 /\ manualIndex = -1
            /\ ~hasPausedAtTranquilityRef /\ ~isPausedAtTranquility)
    /\ [][(\/ (countedWordsRef # {} /\ countedWordsRef' = {})
           \/ startsWithT' < startsWithT
           \/ endsWithE' < endsWithE
           \/ doesBoth' < doesBoth)
          => (counters' = <<0, 0, 0>> /\ countedWordsRef' = {})]_vars

\* C3 witness: a start was issued while the keyword timer of the previous
\* run was still pending.
C3_StartedMidRun ==
    /\ lastOp.op = "startVideo"
    /\ resumeTimers > 0

\* C4 as stated: a PAUSED notification caused by the user that arrives while
\* the video loop runs stops the loop and leaves the counters alone.
C4_ExternalPauseStops ==
    [][(/\ onStateChange
        /\ Head(events) = Event("PAUSED", "user")
        /\ loopRunning /\ ~isManualMode)
       => (~loopRunning' /\ counters' = counters)]_vars

\* C5: the keyword pause triggers at most once between two starts, and the
\* latch is cleared only by a start.
C5_KeywordPauseOnce ==
    /\ [](triggers <= 1)
    /\ [][(hasPausedAtTranquilityRef /\ ~hasPausedAtTranquilityRef')
          => lastOp'.op \in StartOps]_vars

\* C5 witness: after the one trigger of the run, the loop came back to the
\* keyword's index and applied it without pausing.
C5_KeywordRevisited ==
    /\ variant = 1
    /\ triggers = 1
    /\ lastOp.op \in {"tick:counted", "tick:recounted"}
    /\ lastIndexRef = tranquilityIndex1

\* C6 as stated: a tick that reads a time past the segment end shows the
\* last word, stops the loop (no frame pending, loopRunning false) and
\* issues a pause command.
C6_PastEndStops ==
    lastOp.op = "tick:pastEnd" =>
        /\ currentIndex = LastWord
        /\ ~loopRunning
        /\ ~rafPending
        /\ lastOp.cmds = <<"pauseVideo">>

\* C7 as stated: in a run whose clock never went backwards, once the keyword
\* pause and resume have completed and the loop has moved past the keyword,
\* the keyword's index is in the ledger and its t has been counted.
C7_KeywordCounted ==
    (/\ variant = 1
     /\ loopRunning /\ ~isManualMode
     /\ ~rewound
     /\ hasPausedAtTranquilityRef
     /\ resumeTimers = 0 /\ playTimers = 0
     /\ lastIndexRef > tranquilityIndex1)
    => (/\ \E k \in countedWordsRef : k[1] = tranquilityIndex1
        /\ startsWithT >= 1)

\* C8: the manual index is the number of ticks minus one, the counters of a
\* manual run are those of words 0..manualIndex, and when the run stops by
\* itself the index is the last word's and the counters are the passage's.
C8_ManualCountsInOrder ==
    /\ manualIndex = manualTicks - 1
    /\ (isManualMode \/ lastOp.op = "manualEffect:stop") =>
            /\ startsWithT = PassageCount("startsT", manualIndex)
            /\ endsWithE = PassageCount("endsE", manualIndex)
            /\ doesBoth = PassageCount("both", manualIndex)
    /\ lastOp.op = "manualEffect:stop" =>
            /\ manualIndex = LastWord
            /\ manualTicks = NumWords(variant)

\* C8 witness: a manual run has stopped by itself after its last tick.
C8_ManualRunComplete ==
    /\ lastOp.op = "manualEffect:stop"
    /\ manualTicks = NumWords(variant)
    /\ doesBoth = PassageCount("both", LastWord)

\* C9 as stated: once a manual run has stopped by itself and the driver is
\* idle, the active index shown is the last word's and the counters are the
\* passage's totals.
C9_ActiveIndexAfterManual ==
    (~isManualMode /\ ~loopRunning /\ manualIndex = LastWord)
        => /\ activeIndex = LastWord
           /\ startsWithT = PassageCount("startsT", LastWord)
           /\ endsWithE = PassageCount("endsE", LastWord)
           /\ doesBoth = PassageCount("both", LastWord)

\* C10: unless manual starts are issued again and again for ever, a manual
\* run stops by itself; it has then taken exactly as many ticks as there are
\* words, and once the driver is out of manual mode and its effects have
\* run, no manual timer is pending.
C10_ManualRunStops ==
    /\ (<>[](lastOp.op # "startManual") => (isManualMode ~> ~isManualMode))
    /\ [](lastOp.op = "manualEffect:stop" => manualTicks = NumWords(variant))
    /\ []((~isManualMode /\ ~EffectsPending) => ~manualTimer)

\* C10 witness: idle again after the last tick of a manual run, nothing
\* pending.
C10_ManualRunIdle ==
    /\ ~isManualMode /\ ~EffectsPending
    /\ manualTicks = NumWords(variant)
    /\ ~manualTimer

\* C11: a video tick that reads a time before the segment start changes
\* neither index, no counter and not the ledger, so the active index a start
\* set to -1 stays -1 over any number of such ticks; and after such a tick
\* of a run whose loop has applied no index yet, the ledger is empty and
\* the counters are 0.
C11_BeforeStartNoProgress ==
    /\ [][(playerTime < SegStart(variant) /\ UpdateTick) =>
            /\ activeIndex' = activeIndex
            /\ currentIndex' = currentIndex
            /\ lastIndexRef' = lastIndexRef
            /\ counters' = counters
            /\ countedWordsRef' = countedWordsRef]_vars
    /\ [](lastOp.op = "tick:beforeStart" /\ lastIndexRef = -1 /\ triggers = 0
            => /\ countedWordsRef = {}
               /\ counters = <<0, 0, 0>>)

\* C11 witness: a running loop has just ticked before the segment start
\* with nothing applied yet.
C11_TickedBeforeStart ==
    /\ lastOp.op = "tick:beforeStart"
    /\ loopRunning /\ rafPending
    /\ playerTime < SegStart(variant)
    /\ activeIndex = -1

C13_EndedShowsLastWord ==
    [][(onStateChange /\ Head(events).data = "ENDED")
       => (activeIndex' = LastWord /\ ~loopRunning')]_vars

\* C13 amended: the step that handles an ENDED notification sets the video
\* index to the last word and the loop flag to false and changes no counter;
\* the active index is then the last word's unless manual mode is on, where
\* it stays the manual index; and a frame callback runs only while the loop
\* flag is true, so no tick applies an index or counts after the stop.
C13_EndedStopsVideoLoop ==
    /\ [][(events # <<>> /\ Head(events).data = "ENDED" /\ onStateChange)
          => /\ currentIndex' = LastWord
             /\ ~loopRunning'
             /\ counters' = counters
             /\ activeIndex' = (IF isManualMode THEN manualIndex ELSE LastWord)]_vars
    /\ [][~loopRunning => ~UpdateTick]_vars
    /\ []((~loopRunning /\ ~EffectsPending) => ~rafPending)

\* C13 witness: an ENDED notification has just stopped a loop that was
\* running and had counted words.
C13_EndedWhileRunning ==
    /\ lastOp.op = "event:ENDED"
    /\ syncDeps[1]
    /\ ~loopRunning /\ ~isManualMode
    /\ activeIndex = LastWord
    /\ countedWordsRef # {}

\* C14 as stated: the loop flag and the manual flag are never both true, and
\* the paused-at-keyword flag is true only while the video loop is running
\* outside manual mode.
C14_OneModeActive ==
    /\ ~(loopRunning /\ isManualMode)
    /\ isPausedAtTranquility => (loopRunning /\ ~isManualMode)

\* C15: the video index, the manual index and the active index are in
\* -1 .. tokenCount - 1 in every reachable state.
C15_IndexInRange ==
    /\ currentIndex \in -1..LastWord
    /\ manualIndex \in -1..LastWord
    /\ activeIndex \in -1..LastWord
    /\ lastIndexRef \in -1..LastWord

\* C15 witness: a tick read exactly the segment end, mapped it to
\* tokenCount, and the range guard kept the index it had.
C15_GuardRejectedTokenCount ==
    /\ lastOp.op = "tick:same"
    /\ playerTime = SegEnd(variant)
    /\ IndexAt(variant, playerTime) = NumWords(variant)
    /\ currentIndex # -1

\* C16: the three counters are never negative, and a step that lowers one
\* of them is a start command.
C16_CountersMonotone ==
    /\ [](startsWithT >= 0 /\ endsWithE >= 0 /\ doesBoth >= 0)
    /\ [][(\/ startsWithT' < startsWithT
           \/ endsWithE' < endsWithE
           \/ doesBoth' < doesBoth)
          => lastOp'.op \in StartOps]_vars

\* C16 witness: the keyword timer fired in a run whose clock had moved
\* backwards, with words counted and a counter above zero.
C16_TimerWithCounts ==
    /\ lastOp.op = "resumeTimer"
    /\ rewound
    /\ endsWithE > 0
    /\ Cardinality(countedWordsRef) >= 2

\* C17 as stated: a tick that has read a time exactly equal to the segment
\* end has mapped it to the last word's index, and that index is applied
\* and in the ledger.
C17_SegmentEndMapsToLastWord ==
    (/\ playerTime = SegEnd(variant)
     /\ lastOp.op \in {"tick:same", "tick:counted", "tick:recounted", "tick:trigger"})
    => /\ IndexAt(variant, playerTime) = LastWord
       /\ currentIndex = LastWord
       /\ \E k \in countedWordsRef : k[1] = LastWord

\* C18: for progress values p <= q of the segment, the index mapped from p
\* is at most the index mapped from q.
C18_MappingMonotone ==
    lastOp.op = "map:later" => lastIndexRef <= currentIndex

\* C18 witness: two different progress values inside the segment have been
\* mapped, the later one to a strictly greater index.
C18_MappedTwoValues ==
    /\ lastOp.op = "map:later"
    /\ playerTime < SegEnd(variant)
    /\ 0 <= lastIndexRef
    /\ lastIndexRef < currentIndex

\* The first character of w that is no comma or period is c or its capital.
FirstLetterIs(w, c, capital) ==
    \E i \in 1..Len(w) :
        /\ w[i] \in {c, capital}
        /\ \A j \in 1..(i - 1) : w[j] \in {",", "."}

\* The last character of w that is no comma or period is c or its capital.
LastLetterIs(w, c, capital) ==
    \E i \in 1..Len(w) :
        /\ w[i] \in {c, capital}
        /\ \A j \in (i + 1)..Len(w) : w[j] \in {",", "."}

\* The three counters after one classification, as bits.
Classified(t, e, b) ==
    counters = <<IF t THEN 1 ELSE 0, IF e THEN 1 ELSE 0, IF b THEN 1 ELSE 0>>

\* C19: for every token of the passage and for the empty string, the
\* classification has startsT exactly when the first letter left after
\* removing commas and periods is t or T, endsE exactly when the last one
\* is e or E, and both exactly when the two hold; Tranquility, gives
\* (true, false, false), the gives (true, true, true), Union, gives
\* (false, false, false) and the empty string gives all false.
C19_ClassificationCorrect ==
    lastOp.op = "classify:done" =>
        LET w == ProbeWord(variant, manualIndex)
            t == FirstLetterIs(w, "t", "T")
            e == LastLetterIs(w, "e", "E")
        IN  /\ Classified(t, e, t /\ e)
            /\ w = <<"T","r","a","n","q","u","i","l","i","t","y",",">>
                    => Classified(TRUE, FALSE, FALSE)
            /\ w = <<"t","h","e">> => Classified(TRUE, TRUE, TRUE)
            /\ w = <<"U","n","i","o","n",",">> => Classified(FALSE, FALSE, FALSE)
            /\ w = <<>> => Classified(FALSE, FALSE, FALSE)

\* C19 witness: the capitalised keyword with its comma has been classified
\* as starting with t.
C19_ClassifiedKeyword ==
    /\ lastOp.op = "classify:done"
    /\ ProbeWord(variant, manualIndex) = <<"T","r","a","n","q","u","i","l","i","t","y",",">>
    /\ startsWithT = 1

\* What later steps of a video run depend on, as a start from the initial
\* state leaves it: nothing applied, nothing counted, no pause protocol
\* state, no keyword timer pending, the player playing from the segment
\* start.
FreshVideoRun ==
    /\ currentIndex = -1 /\ manualIndex = -1
    /\ counters = <<0, 0, 0>>
    /\ countedWordsRef = {}
    /\ lastIndexRef = -1
    /\ ~hasPausedAtTranquilityRef /\ ~isPausedAtTranquility
    /\ pauseStartTimeRef = -1
    /\ loopRunning /\ ~isManualMode
    /\ resumeTimers = 0 /\ playTimers = 0
    /\ playerTime = SegStart(variant) /\ playerState = "playing"

\* C20 as stated: every successful video start leaves the same state
\* behind whatever came before it, and a tick of a run that has applied no
\* index yet applies the index of the in-segment time it reads.
C20_NoInheritedState ==
    /\ [](lastOp.op = "startVideo" => FreshVideoRun)
    /\ [][(/\ UpdateTick
           /\ currentIndex = -1
           /\ playerTime >= SegStart(variant) /\ playerTime < SegEnd(variant)
           /\ lastOp'.op # "tick:error")
          => currentIndex' = IndexAt(variant, playerTime)]_vars

\* C21 as stated: a tick that finds the player without its time query, or
\* whose time query throws, schedules no other frame, sets the loop flag to
\* false and leaves the active index, the counters and the ledger alone.
C21_FaultStopsLoop ==
    [][(UpdateTick /\ lastOp'.op \in {"tick:error", "tick:noPlayer"})
       => /\ ~rafPending'
          /\ ~loopRunning'
          /\ activeIndex' = activeIndex
          /\ counters' = counters
          /\ countedWordsRef' = countedWordsRef]_vars

\* C22: a video start pressed while there is no player object or the player
\* is not ready changes nothing of the driver or the player and sends no
\* command; the only way a video start changes anything is the full start,
\* which needs the player and ready, and then the loop runs from index -1
\* with the seek and play commands sent.
C22_RefusedStartChangesNothing ==
    [][((\/ playerRef = "null" \/ ~ready
         \/ lastOp'.op \in {"startVideo:refused", "startVideo"})
        /\ handleStartWithVideo)
       => /\ (playerRef = "null" \/ ~ready \/ lastOp'.op = "startVideo:refused")
               => /\ UNCHANGED <<variant, reactState, refs, player, sched, history>>
                  /\ lastOp'.cmds = <<>>
          /\ lastOp'.op = "startVideo"
               => /\ playerRef = "player" /\ ready
                  /\ loopRunning' /\ ~isManualMode'
                  /\ currentIndex' = -1 /\ counters' = <<0, 0, 0>>
                  /\ lastOp'.cmds = <<"seekTo", "playVideo">>]_vars

\* C22 witness: the start was refused with the player object constructed,
\* ready and once started before: its seek or play function is missing.
C22_RefusedWithPlayer ==
    /\ lastOp.op = "startVideo:refused"
    /\ playerRef = "player" /\ ready
    /\ startsWithT > 0

\* C23 as stated: a start cancels the pending keyword timer, so in a run that
\* has not reached the keyword yet neither the keyword timer nor its nested
\* play timer fires: no seek, no play, and no write to the last applied
\* index, the pause flag or the pause start time by a timer of an older run.
C23_StartCancelsKeywordTimer ==
    [][(ResumeTimerFire \/ PlayTimerFire) => triggers > 0]_vars

\* The branches of update that run after the index has been computed.
MappedTicks == {"tick:pinned", "tick:same", "tick:trigger", "tick:counted",
                "tick:recounted"}

\* C24: a tick that maps its time to the last applied index changes neither
\* the video index, the active index, the last applied index, the counters,
\* the ledger, the latch, the pause flag nor the player, and sends no
\* command; and no tick of any branch changes the last applied index, a
\* counter, the ledger or the latch unless its mapped index differs from the
\* last applied one.
C24_SameIndexChangesNothing ==
    /\ [][(lastOp'.op \in MappedTicks
             /\ IndexAt(variant, playerTime) = lastIndexRef
             /\ UpdateTick)
          => /\ UNCHANGED <<currentIndex, lastIndexRef, counters,
                            countedWordsRef, hasPausedAtTranquilityRef,
                            isPausedAtTranquility, loopRunning, player,
                            resumeTimers>>
             /\ activeIndex' = activeIndex
             /\ lastOp'.cmds = <<>>]_vars
    /\ [][(~UNCHANGED <<lastIndexRef, counters, countedWordsRef,
                         hasPausedAtTranquilityRef>> /\ UpdateTick)
          => /\ lastOp'.op \in MappedTicks
             /\ IndexAt(variant, playerTime) # lastIndexRef]_vars

\* C24 witness: a frame has just read a time inside the segment that maps to
\* the index applied by an earlier frame.
C24_RepeatedIndexTick ==
    /\ lastOp.op = "tick:same"
    /\ lastIndexRef >= 0
    /\ IndexAt(variant, playerTime) = lastIndexRef
    /\ startsWithT > 0

\* C26 as stated: while the pause flag of the keyword protocol is set, every
\* tick leaves the active index on the keyword's index and changes no
\* counter, whatever time inside the segment the tick reads.
C26_PausedTickPinned ==
    [][(UpdateTick /\ isPausedAtTranquility
             /\ lastOp'.op \in MappedTicks)
          => /\ activeIndex' = tranquilityIndex1
             /\ counters' = counters]_vars

\* C25: the tick that maps its time to the keyword's index, not yet applied,
\* with the latch clear, makes the active index and the last applied index
\* the keyword's index, sets the pause flag and the latch, records the time,
\* sends the pause command, which pauses the player unless the call throws,
\* arms one timer, and leaves the three counters and the ledger as they were.
C25_TriggerTickEffect ==
    [][(/\ lastOp'.op \in MappedTicks
        /\ variant = 1
        /\ IndexAt(variant, playerTime) = tranquilityIndex1
        /\ lastIndexRef # tranquilityIndex1
        /\ ~hasPausedAtTranquilityRef
        /\ UpdateTick)
        => /\ activeIndex' = tranquilityIndex1
           /\ lastIndexRef' = tranquilityIndex1
           /\ isPausedAtTranquility'
           /\ hasPausedAtTranquilityRef'
           /\ pauseStartTimeRef' = playerTime
           /\ lastOp'.cmds = <<"pauseVideo">>
           /\ ~lastOp'.threw => playerState' # "playing"
           /\ resumeTimers' = resumeTimers + 1
           /\ counters' = counters
           /\ countedWordsRef' = countedWordsRef]_vars

\* C25 witness: the trigger tick has just run in a run that had already
\* counted words, and its timer is pending.
C25_TriggeredWithCounts ==
    /\ lastOp.op = "tick:trigger"
    /\ resumeTimers > 0
    /\ isPausedAtTranquility
    /\ currentIndex = tranquilityIndex1
    /\ countedWordsRef # {}

\* The earliest time at which a tick can trigger the keyword pause.
FirstKeywordTime == TimeOfPct(1, KeywordPct(1))

\* C27 as stated: the keyword timer seeks to the time recorded at the
\* trigger plus the forward delta, never to an earlier time, and clears the
\* pause flag without sending play; the play command comes from the nested
\* timer and is never sent while the pause flag is set.
C27_ResumeSeeksPastPause ==
    /\ [][(ResumeTimerFire /\ lastOp'.op = "resumeTimer")
          => /\ pauseStartTimeRef >= FirstKeywordTime
             /\ playerTime' = pauseStartTimeRef + SEEK_FORWARD
             /\ ~isPausedAtTranquility'
             /\ lastOp'.cmds = <<"seekTo">>
             /\ playTimers' = playTimers + 1]_vars
    /\ [][(PlayTimerFire /\ lastOp'.cmds = <<"playVideo">>)
          => ~isPausedAtTranquility]_vars

\* A PAUSED notification caused by a pauseVideo() of the driver is in flight.
OwnPauseInFlight ==
    \E i \in 1..Len(events) :
        events[i].data = "PAUSED" /\ events[i].by = "driver"

C29_NoStaleCallback ==
    /\ [][~(loopRunning /\ ~isManualMode) => ~UpdateTick]_vars
    /\ [][~(isManualMode /\ ~loopRunning) => ~ManualTimerFire]_vars
    /\ [](~EffectsPending
            => /\ rafPending => (loopRunning /\ ~isManualMode)
               /\ manualTimer => (isManualMode /\ ~loopRunning))
    /\ [][(rafPending' /\ handleStartManual) => SyncPending']_vars
    /\ [][(manualTimer' /\ lastOp'.op = "startVideo" /\ handleStartWithVideo)
          => ManualPending']_vars

\* C29 witness: the video start was pressed during a manual run whose timer
\* is still pending, and the cleanup of the manual effect has not run yet.
C29_SwitchWithTimerPending ==
    /\ lastOp.op = "startVideo"
    /\ manualTimer
    /\ ManualPending
    /\ loopRunning /\ ~isManualMode

\* What the player and its viewer do, and the delivery of its notifications.
TransportStep ==
    \/ onStateChange
    \/ PlayerAdvance
    \/ PlayerEnds
    \/ UserPause
    \/ UserPlay
    \/ UserSeek

\* The last run was a manual run and it has stopped by itself.
ManualRunOver == ~isManualMode /\ ~loopRunning /\ manualTicks > 0

C31_CommandFaultStopsRun ==
    [][((UpdateTick \/ ResumeTimerFire \/ PlayTimerFire \/ handleStartWithVideo)
          /\ lastOp'.threw)
       => (~loopRunning' /\ ~isPausedAtTranquility')]_vars

\* C32 as stated: outside manual mode, an active index that is a word's
\* index is in the ledger in the same state.
C32_ActiveIndexCounted ==
    (~isManualMode /\ activeIndex >= 0)
        => wordKey(variant, activeIndex) \in countedWordsRef

\* C33 as stated: after a tick that has read a time inside the segment while
\* the pause flag of the keyword protocol is clear, the active index is the
\* index mapped from that time.
C33_ActiveIndexFollowsTime ==
    [][(UpdateTick /\ lastOp'.op \in MappedTicks /\ ~isPausedAtTranquility)
       => activeIndex' = IndexAt(variant, playerTime)]_vars

\* C34 as stated: whenever the loop flag is true, manual mode is off and the
\* effects of the last render have run, a frame callback is pending.
C34_RunningFlagMeansLoop ==
    (loopRunning /\ ~isManualMode /\ ~EffectsPending) => rafPending

\* C35: in a behaviour where no player call ever throws and the start
\* commands stop at some time, every keyword trigger is followed by a state
\* in which the nested timer has just sent the play command and the pause
\* flag of the keyword protocol is clear.
C35_PauseEnds ==
    ([](~lastOp.threw) /\ <>[](lastOp.op \notin StartOps))
        => ((lastOp.op = "tick:trigger")
              ~> (/\ lastOp.op = "playTimer"
                  /\ lastOp.cmds = <<"playVideo">>
                  /\ ~isPausedAtTranquility))

\* C35 witness: the nested timer has just sent the play command in a run
\* that had triggered the keyword pause, with the pause flag clear.
C35_ResumedAfterPause ==
    /\ lastOp.op = "playTimer"
    /\ lastOp.cmds = <<"playVideo">>
    /\ triggers = 1
    /\ hasPausedAtTranquilityRef
    /\ ~isPausedAtTranquility
    /\ loopRunning

\* C36: in every state at most one frame callback of the video loop and at
\* most one 400 ms manual timer is pending, and once the effects of the last
\* render have run the two are never pending together.
C36_OneLoopAtATime ==
    /\ frames <= 1
    /\ timeouts <= 1
    /\ ~EffectsPending => ~(frames > 0 /\ timeouts > 0)

\* C36 witness: a video start issued while a manual timer was pending is
\* being rendered: the sync effect has requested its one frame and the
\* manual effect, which clears the one timer, is still to run.
C36_VideoLoopReplacesTimer ==
    /\ variant = 2
    /\ loopRunning
    /\ ManualPending
    /\ frames = 1
    /\ timeouts = 1

\* C37: in every state the both-counter is at most the starts-with-t counter
\* and at most the ends-with-e counter.
C37_BothIsLeast ==
    /\ doesBoth <= startsWithT
    /\ doesBoth <= endsWithE

\* C37 witness: a run has counted a word with both bits and words with only
\* one of them.
C37_BothAndSingleCounted ==
    /\ doesBoth > 0
    /\ doesBoth < startsWithT
    /\ doesBoth < endsWithE

\* C38: in every state each counter is at most the number of words of the
\* passage that have its classification bit.
C38_NoOverCount ==
    /\ startsWithT <= PassageCount("startsT", LastWord)
    /\ endsWithE <= PassageCount("endsE", LastWord)
    /\ doesBoth <= PassageCount("both", LastWord)

\* C38 witness: a manual run started after a video run had played to the end
\* of the segment has reached the last word, and every counter equals the
\* number of words of the passage with its bit.
C38_FullCountAfterSwitch ==
    /\ variant = 2
    /\ playerTime >= SegEnd(variant)
    /\ manualIndex = LastWord
    /\ countedWordsRef = {}
    /\ startsWithT = PassageCount("startsT", LastWord)
    /\ endsWithE = PassageCount("endsE", LastWord)
    /\ doesBoth = PassageCount("both", LastWord)

====
